---- MODULE Spec2Model ----
(***************************************************************************)
(* pandas/io/gbq.py: the Google BigQuery shim.  read_gbq and to_gbq import *)
(* pandas_gbq on every call (_try_import) and forward their arguments to   *)
(* the entry point of the same name.                                       *)
(*                                                                         *)
(* Python values are modelled as strings ("None", "True", "legacy", ...),  *)
(* objects that have an identity as records [id, data], exceptions as      *)
(* records [type, msg] where msg is the message split into words, a line   *)
(* break being the word "\n".                                              *)
(***************************************************************************)
EXTENDS Integers, Sequences, FiniteSets, TLC

\* Number of top-level calls the caller makes in one process.
MaxCalls == 3
\* The caller passes none of the optional arguments, at most MaxOptional
\* of them, or all of them.
MaxOptional == 2

VARIABLES
    installed,    \* pandas_gbq can be found on the import path
    sys_modules,  \* the interpreter's sys.modules entry for 'pandas_gbq':
                  \*   "absent", "module" (loaded) or "None" (blocked)
    pc,           \* "idle", "try_import", "delegate", "done"
    op,           \* the function being called: "none", "read_gbq", "to_gbq"
    args,         \* what the caller passed: name -> value
    handle,       \* the local variable pandas_gbq of the running call
    invocations,  \* the delegate's entry points invoked by the running call
    outcome,      \* how the running call ended
    nImports,     \* import attempts made by the running call
    availAtImport,\* whether the import could succeed when it was attempted
    totalImports, \* import attempts made since the process started
    hist          \* resolution results of the finished calls, oldest first

vars == <<installed, sys_modules, pc, op, args, handle, invocations, outcome,
          nImports, availAtImport, totalImports, hist>>

----------------------------------------------------------------------------
\* Signatures

ReadOptional ==
    {"project_id", "index_col", "col_order", "reauth", "verbose",
     "private_key", "auth_local_webserver", "dialect", "credentials_path"}

ReadFormals == {"query"} \cup ReadOptional

ReadDefaults ==
    [project_id |-> "None", index_col |-> "None", col_order |-> "None",
     reauth |-> "False", verbose |-> "True", private_key |-> "None",
     auth_local_webserver |-> "False", dialect |-> "legacy",
     credentials_path |-> "None"]

WriteRequired == {"dataframe", "destination_table", "project_id"}

WriteOptional ==
    {"chunksize", "verbose", "reauth", "if_exists", "private_key",
     "auth_local_webserver", "credentials_path"}

WriteFormals == WriteRequired \cup WriteOptional

\* Variant: if_exists defaults to 'append'.
WriteDefaultsAppend ==
    [chunksize |-> "10000", verbose |-> "True", reauth |-> "False",
     if_exists |-> "append", private_key |-> "None",
     auth_local_webserver |-> "False", credentials_path |-> "None"]

WriteDefaults ==
    [chunksize |-> "10000", verbose |-> "True", reauth |-> "False",
     if_exists |-> "fail", private_key |-> "None",
     auth_local_webserver |-> "False", credentials_path |-> "None"]

\* Extra keywords read_gbq accepts through **kwargs.
ExtraKeywords == {"configuration"}

\* The values if_exists documents, and one it does not.
IfExistsDocumented == {"fail", "replace", "append"}
IfExistsValues == IfExistsDocumented \cup {"merge"}

\* The value a caller passes for a name (never the default of that name).
PassedValue ==
    [query |-> "SELECT 1", project_id |-> "my-project", index_col |-> "idx",
     col_order |-> "b,a", reauth |-> "True", verbose |-> "False",
     private_key |-> "key.json", auth_local_webserver |-> "True",
     dialect |-> "standard", credentials_path |-> "/creds",
     configuration |-> "useQueryCache=False", dataframe |-> "df_in",
     destination_table |-> "dataset.tablename", chunksize |-> "500"]

Chosen(pool) ==
    {S \in SUBSET pool : Cardinality(S) <= MaxOptional \/ S = pool}

\* The calls of read_gbq the caller can make.
ReadCalls ==
    {[n \in {"query"} \cup S |-> PassedValue[n]] :
        S \in Chosen(ReadOptional \cup ExtraKeywords)}

\* The calls of to_gbq the caller can make.
WriteCalls ==
    {[n \in WriteRequired \cup S |->
        IF n = "if_exists" THEN v ELSE PassedValue[n]] :
        S \in Chosen(WriteOptional), v \in IfExistsValues}

\* Python's binding of a call's arguments to the formals: the value passed,
\* or the default.
BindRead(a) ==
    [n \in ReadFormals |-> IF n \in DOMAIN a THEN a[n] ELSE ReadDefaults[n]]

\* The **kwargs dictionary: what was passed under no formal's name.
KwargsOf(a) == [n \in (DOMAIN a) \ ReadFormals |-> a[n]]

BindWrite(a) ==
    [n \in WriteFormals |-> IF n \in DOMAIN a THEN a[n] ELSE WriteDefaults[n]]

----------------------------------------------------------------------------
\* _try_import

NoError == [type |-> "", msg |-> <<>>]
NoObject == [id |-> 0, data |-> ""]
NoOutcome == [kind |-> "none", obj |-> NoObject, err |-> NoError]

\* Variant: the message gives the pip command only.
MissingDependencyErrorPipOnly ==
    [type |-> "ImportError",
     msg |-> <<"Load", "data", "from", "Google", "BigQuery", "\n",
               "\n",
               "the", "pandas-gbq", "package", "is", "not", "installed", "\n",
               "see", "the", "docs:", "https://pandas-gbq.readthedocs.io", "\n",
               "\n",
               "you", "can", "install", "via", "pip:", "\n",
               "pip", "install", "pandas-gbq", "\n">>]

\* The ImportError _try_import raises.
MissingDependencyError ==
    [type |-> "ImportError",
     msg |-> <<"Load", "data", "from", "Google", "BigQuery", "\n",
               "\n",
               "the", "pandas-gbq", "package", "is", "not", "installed", "\n",
               "see", "the", "docs:", "https://pandas-gbq.readthedocs.io", "\n",
               "\n",
               "you", "can", "install", "via", "pip", "or", "conda:", "\n",
               "pip", "install", "pandas-gbq", "\n",
               "conda", "install", "pandas-gbq", "-c", "conda-forge", "\n">>]

\* The statement `import pandas_gbq`: a loaded module is taken from
\* sys.modules, an entry of None fails, and otherwise the module is searched
\* for and, when found, loaded and entered into sys.modules.
ImportSucceeds(sm, inst) ==
    IF sm = "module" THEN TRUE
    ELSE IF sm = "None" THEN FALSE
    ELSE inst

SysModulesAfterImport(sm, inst) ==
    IF sm = "absent" /\ inst THEN "module" ELSE sm

\* Whether `import pandas_gbq` can succeed in the present environment.
Available ==
    sys_modules = "module" \/ (sys_modules = "absent" /\ installed)

Resolved == IF handle = "pandas_gbq" THEN "ok" ELSE "fail"

----------------------------------------------------------------------------
\* The delegate, pandas_gbq: an external library.  Its entry points return
\* an object or raise, as they please.

PyNone == [id |-> 0, data |-> "None"]

ReadReturns == {[id |-> 1, data |-> "rows"], [id |-> 2, data |-> "rows"]}
WriteReturns == {PyNone, [id |-> 3, data |-> "job"]}

DelegateErrors ==
    {[type |-> "GenericGBQException", msg |-> <<"Reason:", "invalidQuery">>],
     [type |-> "ImportError", msg |-> <<"No", "module", "named", "google">>]}

Returning(o) == [kind |-> "return", obj |-> o, err |-> NoError]
Raising(e) == [kind |-> "raise", obj |-> NoObject, err |-> e]

Responses(returns) ==
    {Returning(o) : o \in returns} \cup {Raising(e) : e \in DelegateErrors}

----------------------------------------------------------------------------
\* read_gbq and to_gbq

\* Variant: **kwargs is not passed on.
ReadForwardNoKwargs(loc, kwargs) ==
    [pos |-> <<loc.query>>,
     kw |-> [project_id |-> loc.project_id,
             index_col |-> loc.index_col,
             col_order |-> loc.col_order,
             reauth |-> loc.reauth,
             verbose |-> loc.verbose,
             private_key |-> loc.private_key,
             auth_local_webserver |-> loc.auth_local_webserver,
             dialect |-> loc.dialect,
             credentials_path |-> loc.credentials_path]]

\* The arguments of the call pandas_gbq.read_gbq(query, project_id=..., ...,
\* **kwargs).
ReadForward(loc, kwargs) ==
    [pos |-> <<loc.query>>,
     kw |-> [project_id |-> loc.project_id,
             index_col |-> loc.index_col,
             col_order |-> loc.col_order,
             reauth |-> loc.reauth,
             verbose |-> loc.verbose,
             private_key |-> loc.private_key,
             auth_local_webserver |-> loc.auth_local_webserver,
             dialect |-> loc.dialect,
             credentials_path |-> loc.credentials_path] @@ kwargs]

\* Variant: an if_exists outside the documented values is replaced by 'fail'.
WriteForwardNormalising(loc) ==
    [pos |-> <<loc.dataframe, loc.destination_table, loc.project_id>>,
     kw |-> [chunksize |-> loc.chunksize,
             verbose |-> loc.verbose,
             reauth |-> loc.reauth,
             if_exists |-> IF loc.if_exists \in IfExistsDocumented
                           THEN loc.if_exists ELSE "fail",
             private_key |-> loc.private_key,
             auth_local_webserver |-> loc.auth_local_webserver,
             credentials_path |-> loc.credentials_path]]

\* The arguments of the call pandas_gbq.to_gbq(dataframe, destination_table,
\* project_id, chunksize=..., ...).
WriteForward(loc) ==
    [pos |-> <<loc.dataframe, loc.destination_table, loc.project_id>>,
     kw |-> [chunksize |-> loc.chunksize,
             verbose |-> loc.verbose,
             reauth |-> loc.reauth,
             if_exists |-> loc.if_exists,
             private_key |-> loc.private_key,
             auth_local_webserver |-> loc.auth_local_webserver,
             credentials_path |-> loc.credentials_path]]

\* Variant: a copy of the delegate's object is returned.
ReadOutcomeCopy(resp) ==
    IF resp.kind = "raise" THEN resp
    ELSE Returning([id |-> resp.obj.id + 10, data |-> resp.obj.data])

\* Variant: the delegate is called inside the try block of the import, so
\* its ImportError becomes the missing-dependency error.
ReadOutcomeTranslating(resp) ==
    IF resp.kind = "raise" /\ resp.err.type = "ImportError"
    THEN Raising(MissingDependencyError)
    ELSE resp

\* `return pandas_gbq.read_gbq(...)`: the delegate's object is returned, the
\* delegate's exception propagates.
ReadOutcome(resp) == resp

\* Variant: `return pandas_gbq.to_gbq(...)`.
WriteOutcomeReturning(resp) == resp

\* `pandas_gbq.to_gbq(...)` as the last statement: the delegate's object is
\* dropped and None returned, the delegate's exception propagates.
WriteOutcome(resp) ==
    IF resp.kind = "raise" THEN resp ELSE Returning(PyNone)

NoArgs == [n \in {} |-> ""]

Init ==
    /\ installed \in BOOLEAN
    /\ sys_modules = "absent"
    /\ pc = "idle"
    /\ op = "none"
    /\ args = NoArgs
    /\ handle = "unbound"
    /\ invocations = <<>>
    /\ outcome = NoOutcome
    /\ nImports = 0
    /\ availAtImport = FALSE
    /\ totalImports = 0
    /\ hist = <<>>

\* The caller calls read_gbq.
CallRead ==
    /\ pc = "idle"
    /\ Len(hist) < MaxCalls
    /\ \E a \in ReadCalls : args' = a
    /\ op' = "read_gbq"
    /\ pc' = "try_import"
    /\ UNCHANGED <<installed, sys_modules, handle, invocations, outcome,
                   nImports, availAtImport, totalImports, hist>>

\* The caller calls to_gbq.
CallWrite ==
    /\ pc = "idle"
    /\ Len(hist) < MaxCalls
    /\ \E a \in WriteCalls : args' = a
    /\ op' = "to_gbq"
    /\ pc' = "try_import"
    /\ UNCHANGED <<installed, sys_modules, handle, invocations, outcome,
                   nImports, availAtImport, totalImports, hist>>

\* Variant: a module-level cache of the handle; once a call has resolved it,
\* later calls reuse it and import nothing.
TryImportCached ==
    /\ pc = "try_import"
    /\ availAtImport' = Available
    /\ IF \E i \in 1..Len(hist) : hist[i] = "ok"
       THEN /\ handle' = "pandas_gbq"
            /\ pc' = "delegate"
            /\ UNCHANGED <<sys_modules, outcome, nImports, totalImports>>
       ELSE /\ nImports' = nImports + 1
            /\ totalImports' = totalImports + 1
            /\ sys_modules' = SysModulesAfterImport(sys_modules, installed)
            /\ IF ImportSucceeds(sys_modules, installed)
               THEN /\ handle' = "pandas_gbq"
                    /\ pc' = "delegate"
                    /\ UNCHANGED outcome
               ELSE /\ outcome' = Raising(MissingDependencyError)
                    /\ pc' = "done"
                    /\ UNCHANGED handle
    /\ UNCHANGED <<installed, op, args, invocations, hist>>

\* Variant: a module-level flag remembers a failed import; every call
\* imports, but once one has failed the later ones fail too.
TryImportRemembersFailure ==
    /\ pc = "try_import"
    /\ nImports' = nImports + 1
    /\ totalImports' = totalImports + 1
    /\ availAtImport' = Available
    /\ sys_modules' = SysModulesAfterImport(sys_modules, installed)
    /\ IF /\ ImportSucceeds(sys_modules, installed)
          /\ \A i \in 1..Len(hist) : hist[i] = "ok"
       THEN /\ handle' = "pandas_gbq"
            /\ pc' = "delegate"
            /\ UNCHANGED outcome
       ELSE /\ outcome' = Raising(MissingDependencyError)
            /\ pc' = "done"
            /\ UNCHANGED handle
    /\ UNCHANGED <<installed, op, args, invocations, hist>>

\* Variant: a failed import is attempted a second time before the error is
\* raised.
TryImportRetrying ==
    /\ pc = "try_import"
    /\ nImports' = nImports + 1
    /\ totalImports' = totalImports + 1
    /\ availAtImport' = Available
    /\ sys_modules' = SysModulesAfterImport(sys_modules, installed)
    /\ IF ImportSucceeds(sys_modules, installed)
       THEN /\ handle' = "pandas_gbq"
            /\ pc' = "delegate"
            /\ UNCHANGED outcome
       ELSE IF nImports = 0
            THEN UNCHANGED <<pc, outcome, handle>>
            ELSE /\ outcome' = Raising(MissingDependencyError)
                 /\ pc' = "done"
                 /\ UNCHANGED handle
    /\ UNCHANGED <<installed, op, args, invocations, hist>>

\* pandas_gbq = _try_import()
TryImport ==
    /\ pc = "try_import"
    /\ nImports' = nImports + 1
    /\ totalImports' = totalImports + 1
    /\ availAtImport' = Available
    /\ sys_modules' = SysModulesAfterImport(sys_modules, installed)
    /\ IF ImportSucceeds(sys_modules, installed)
       THEN /\ handle' = "pandas_gbq"
            /\ pc' = "delegate"
            /\ UNCHANGED outcome
       ELSE /\ outcome' = Raising(MissingDependencyError)
            /\ pc' = "done"
            /\ UNCHANGED handle
    /\ UNCHANGED <<installed, op, args, invocations, hist>>

\* return pandas_gbq.read_gbq(...)
ForwardRead ==
    /\ pc = "delegate"
    /\ op = "read_gbq"
    /\ \E resp \in Responses(ReadReturns) :
        LET call == ReadForward(BindRead(args), KwargsOf(args)) IN
        /\ invocations' = Append(invocations,
               [entry |-> "read_gbq", pos |-> call.pos, kw |-> call.kw,
                resp |-> resp])
        /\ outcome' = ReadOutcome(resp)
    /\ pc' = "done"
    /\ UNCHANGED <<installed, sys_modules, op, args, handle, nImports,
                   availAtImport, totalImports, hist>>

\* pandas_gbq.to_gbq(...)
ForwardWrite ==
    /\ pc = "delegate"
    /\ op = "to_gbq"
    /\ \E resp \in Responses(WriteReturns) :
        LET call == WriteForward(BindWrite(args)) IN
        /\ invocations' = Append(invocations,
               [entry |-> "to_gbq", pos |-> call.pos, kw |-> call.kw,
                resp |-> resp])
        /\ outcome' = WriteOutcome(resp)
    /\ pc' = "done"
    /\ UNCHANGED <<installed, sys_modules, op, args, handle, nImports,
                   availAtImport, totalImports, hist>>

\* The call ends: its result or its exception reaches the caller and its
\* local variables are gone.
Return ==
    /\ pc = "done"
    /\ hist' = Append(hist, Resolved)
    /\ pc' = "idle"
    /\ op' = "none"
    /\ args' = NoArgs
    /\ handle' = "unbound"
    /\ invocations' = <<>>
    /\ outcome' = NoOutcome
    /\ nImports' = 0
    /\ availAtImport' = FALSE
    /\ UNCHANGED <<installed, sys_modules, totalImports>>

\* The environment of the import: the package is installed or removed, and
\* the entry of sys.modules is set to None or deleted.
Install ==
    /\ ~installed
    /\ installed' = TRUE
    /\ UNCHANGED <<sys_modules, pc, op, args, handle, invocations, outcome,
                   nImports, availAtImport, totalImports, hist>>

Uninstall ==
    /\ installed
    /\ installed' = FALSE
    /\ UNCHANGED <<sys_modules, pc, op, args, handle, invocations, outcome,
                   nImports, availAtImport, totalImports, hist>>

BlockModule ==
    /\ sys_modules # "None"
    /\ sys_modules' = "None"
    /\ UNCHANGED <<installed, pc, op, args, handle, invocations, outcome,
                   nImports, availAtImport, totalImports, hist>>

UnloadModule ==
    /\ sys_modules # "absent"
    /\ sys_modules' = "absent"
    /\ UNCHANGED <<installed, pc, op, args, handle, invocations, outcome,
                   nImports, availAtImport, totalImports, hist>>

Next ==
    \/ CallRead
    \/ CallWrite
    \/ TryImport
    \/ ForwardRead
    \/ ForwardWrite
    \/ Return
    \/ Install
    \/ Uninstall
    \/ BlockModule
    \/ UnloadModule

Spec == Init /\ [][Next]_vars

----------------------------------------------------------------------------
\* Properties

\* pat occurs in msg as a run of consecutive words.
Contains(msg, pat) ==
    \E i \in 1..(Len(msg) - Len(pat) + 1) :
        SubSeq(msg, i, i + Len(pat) - 1) = pat

\* The names of the delegate's leading parameters, which the positional
\* arguments are bound to.
ReadPositional == <<"query">>
WritePositional == <<"dataframe", "destination_table", "project_id">>

Positional(entry) ==
    IF entry = "read_gbq" THEN ReadPositional ELSE WritePositional

PositionalNames(entry) ==
    {Positional(entry)[i] : i \in 1..Len(Positional(entry))}

Formals(entry) == IF entry = "read_gbq" THEN ReadFormals ELSE WriteFormals

\* The value the delegate receives under name n in invocation inv.
Received(inv, n) ==
    IF n \in PositionalNames(inv.entry)
    THEN inv.pos[CHOOSE i \in 1..Len(Positional(inv.entry)) :
                    Positional(inv.entry)[i] = n]
    ELSE inv.kw[n]

\* The running call has ended after its import succeeded.
Forwarded == pc = "done" /\ handle = "pandas_gbq"

\* C1: a read_gbq or to_gbq call made while pandas_gbq cannot be imported
\* ends with the ImportError of _try_import, whose message names the package
\* pandas-gbq and gives the pip and the conda install commands; the call
\* returns no value and the delegate is not invoked.
C1_MissingDependencyRaised ==
    (pc = "done" /\ ~availAtImport) =>
        /\ outcome.kind = "raise"
        /\ outcome.err.type = "ImportError"
        /\ Contains(outcome.err.msg, <<"pandas-gbq">>)
        /\ Contains(outcome.err.msg, <<"pip", "install", "pandas-gbq">>)
        /\ Contains(outcome.err.msg,
                    <<"conda", "install", "pandas-gbq", "-c", "conda-forge">>)
        /\ invocations = <<>>

C1_Witness ==
    /\ pc = "done"
    /\ ~availAtImport
    /\ op = "to_gbq"
    /\ DOMAIN args = WriteFormals
    /\ outcome.kind = "raise"

\* C2: a call whose import succeeded invokes the delegate's entry point of
\* its own name exactly once and no other; the delegate receives each name
\* once (positionally or by keyword, never both), receives exactly the
\* formals and the extra keywords passed, and under every name the caller
\* passed it receives the caller's value.
C2_ForwardedOnceUnmodified ==
    Forwarded =>
        /\ Len(invocations) = 1
        /\ invocations[1].entry = op
        /\ LET inv == invocations[1] IN
            /\ Len(inv.pos) = Len(Positional(op))
            /\ PositionalNames(op) \cap DOMAIN inv.kw = {}
            /\ PositionalNames(op) \cup DOMAIN inv.kw
                   = Formals(op) \cup DOMAIN args
            /\ \A n \in DOMAIN args : Received(inv, n) = args[n]

C2_Witness ==
    /\ Forwarded
    /\ op = "read_gbq"
    /\ DOMAIN args = ReadFormals \cup ExtraKeywords
    /\ invocations[1].kw.configuration = "useQueryCache=False"
    /\ invocations[1].kw.dialect = "standard"

\* C3: when the delegate's read_gbq returns, read_gbq returns that very
\* object (same identity, same data).
C3_ReadReturnsDelegateObject ==
    (pc = "done" /\ op = "read_gbq" /\ invocations # <<>>
        /\ invocations[1].resp.kind = "return") =>
        /\ outcome.kind = "return"
        /\ outcome.obj = invocations[1].resp.obj

C3_Witness ==
    /\ pc = "done"
    /\ op = "read_gbq"
    /\ invocations # <<>>
    /\ invocations[1].resp.kind = "return"
    /\ invocations[1].resp.obj.id = 2
    /\ outcome.obj.id = 2

\* C4: an exception raised by the delegate's entry point is the exception
\* the caller gets, type and message unchanged (an ImportError of the
\* delegate is not turned into the missing-dependency error), and the entry
\* point is not invoked again.
C4_DelegateErrorPropagates ==
    (pc = "done" /\ invocations # <<>>
        /\ invocations[1].resp.kind = "raise") =>
        /\ outcome.kind = "raise"
        /\ outcome.err = invocations[1].resp.err
        /\ Len(invocations) = 1

C4_Witness ==
    /\ pc = "done"
    /\ op = "read_gbq"
    /\ invocations # <<>>
    /\ invocations[1].resp.kind = "raise"
    /\ invocations[1].resp.err.type = "ImportError"
    /\ outcome.err # MissingDependencyError

\* C5, as stated: the import attempt of _try_import is performed at most
\* once in the life of the process.
C5_ResolvedOncePerProcess == totalImports <= 1

\* C5, amended: the import attempt is performed once in every call (so as
\* many times as there are calls), no handle outlives its call, and within
\* a call the handle does not change once it is bound.
C5_ResolvedOncePerCall ==
    /\ [](/\ nImports <= 1
          /\ totalImports = Len(hist) + nImports
          /\ (pc \in {"delegate", "done"} => nImports = 1)
          /\ (pc = "idle" => handle = "unbound"))
    /\ [][(handle = "pandas_gbq" /\ pc' # "idle") => handle' = handle]_vars

C5_Witness ==
    /\ Len(hist) = 2
    /\ hist[1] = "ok"
    /\ hist[2] = "ok"
    /\ Forwarded
    /\ totalImports = 3

\* C6: every call makes one import attempt of its own and its resolution
\* follows the importability found by that attempt, whatever earlier calls
\* found: it succeeds after an earlier failure and fails after an earlier
\* success.
C6_ResolutionPerCall ==
    (pc \in {"delegate", "done"}) =>
        /\ nImports = 1
        /\ (handle = "pandas_gbq") = availAtImport
        /\ (handle = "unbound") = ~availAtImport

C6_Witness ==
    /\ Len(hist) = 2
    /\ hist[1] = "ok"
    /\ hist[2] = "fail"
    /\ Forwarded
    /\ availAtImport

\* C7: to_gbq forwards whatever if_exists it was given, documented or not,
\* and once the import has succeeded the call fails only with the exception
\* the delegate raised.
C7_IfExistsNotValidated ==
    (Forwarded /\ op = "to_gbq") =>
        /\ Len(invocations) = 1
        /\ ("if_exists" \in DOMAIN args =>
               invocations[1].kw.if_exists = args.if_exists)
        /\ (outcome.kind = "raise" => outcome = invocations[1].resp)

C7_Witness ==
    /\ Forwarded
    /\ op = "to_gbq"
    /\ "if_exists" \in DOMAIN args
    /\ args.if_exists \notin IfExistsDocumented
    /\ invocations[1].kw.if_exists = "merge"
    /\ outcome.kind = "raise"

\* C8: when the delegate's to_gbq returns, to_gbq returns None, whatever
\* the delegate returned.
C8_WriteReturnsNone ==
    (pc = "done" /\ op = "to_gbq" /\ invocations # <<>>
        /\ invocations[1].resp.kind = "return") =>
        outcome = Returning(PyNone)

C8_Witness ==
    /\ pc = "done"
    /\ op = "to_gbq"
    /\ invocations # <<>>
    /\ invocations[1].resp.kind = "return"
    /\ invocations[1].resp.obj.id = 3
    /\ outcome.obj = PyNone

\* C9: within a call the import comes first: the delegate is invoked only
\* with the handle bound by the call's one import, and a call whose import
\* failed ends with the missing-dependency error after that one attempt and
\* without invoking the delegate.
C9_ResolveBeforeForward ==
    /\ (pc = "try_import" => invocations = <<>> /\ handle = "unbound")
    /\ (pc = "delegate" => handle = "pandas_gbq" /\ nImports = 1)
    /\ (invocations # <<>> => handle = "pandas_gbq" /\ nImports = 1)
    /\ ((pc = "done" /\ handle = "unbound") =>
           /\ invocations = <<>>
           /\ nImports = 1
           /\ outcome = Raising(MissingDependencyError))

C9_Witness ==
    /\ pc = "done"
    /\ handle = "unbound"
    /\ op = "read_gbq"
    /\ installed
    /\ nImports = 1

\* C10: for every optional parameter the caller omitted the delegate
\* receives a keyword of that name carrying the default documented for it,
\* and a read_gbq call without extra keywords forwards none.
C10_DefaultsForwarded ==
    Forwarded =>
        LET kw == invocations[1].kw
            documented ==
                IF op = "read_gbq"
                THEN [project_id |-> "None", index_col |-> "None",
                      col_order |-> "None", reauth |-> "False",
                      verbose |-> "True", private_key |-> "None",
                      auth_local_webserver |-> "False",
                      dialect |-> "legacy", credentials_path |-> "None"]
                ELSE [chunksize |-> "10000", verbose |-> "True",
                      reauth |-> "False", if_exists |-> "fail",
                      private_key |-> "None",
                      auth_local_webserver |-> "False",
                      credentials_path |-> "None"]
        IN  /\ \A n \in (DOMAIN documented) \ (DOMAIN args) :
                n \in DOMAIN kw /\ kw[n] = documented[n]
            /\ (op = "read_gbq" /\ DOMAIN args \subseteq ReadFormals) =>
                   DOMAIN kw = ReadOptional

C10_Witness ==
    /\ Forwarded
    /\ op = "to_gbq"
    /\ DOMAIN args = WriteRequired
    /\ invocations[1].kw.chunksize = "10000"
    /\ invocations[1].kw.if_exists = "fail"

====
